---- MODULE Spec2Model ----
(***************************************************************************)
(* Command line task manager (src/main.cpp): the TaskManager store, its    *)
(* JSON backing file, the command tokenizer and the read/dispatch loop of  *)
(* main.  Text (input lines, tokens, descriptions) is a sequence of        *)
(* one-character strings.                                                  *)
(***************************************************************************)
EXTENDS Integers, Sequences, FiniteSets, TLC

\* add is disabled once next_id exceeds MaxId (keeps the id counter finite)
MaxId == 3

\* largest value of int (std::stoi reports out_of_range beyond it)
IntMax == 2147483647

VARIABLES
    tasks,      \* TaskManager::tasks, a sequence of Task records
    next_id,    \* TaskManager::next_id
    file,       \* content of the backing file tasks.json
    writable,   \* whether std::ofstream can open the backing file
    line,       \* main's variable line
    cin,        \* state of std::cin: "good", "eof" (eofbit), "fail" (eofbit and failbit)
    pc,         \* "off" before main runs, "loop" in the while loop, "done" after it, "crashed"
    out,        \* what the last step printed after the prompt (cout and cerr)
    issued,     \* history: ids assigned by add_task since the last construction
    everIssued, \* history: ids assigned by add_task since the backing file was first created
    emptyStart  \* history: the last construction ended with an empty task collection

vars == <<tasks, next_id, file, writable, line, cin, pc, out, issued, everIssued, emptyStart>>

----------------------------------------------------------------------------
(* Text helpers *)

Space == " "
Quote == "\""
Backslash == "\\"

W_exit == <<"e", "x", "i", "t">>
W_help == <<"h", "e", "l", "p">>
W_add == <<"a", "d", "d">>
W_list == <<"l", "i", "s", "t">>
W_pending == <<"p", "e", "n", "d", "i", "n", "g">>
W_done == <<"d", "o", "n", "e">>
W_delete == <<"d", "e", "l", "e", "t", "e">>
W_p == <<"-", "p">>
W_high == <<"h", "i", "g", "h">>
W_low == <<"l", "o", "w">>

Digits == <<"0", "1", "2", "3", "4", "5", "6", "7", "8", "9">>

IsDigit(c) == \E d \in 1..10 : Digits[d] = c

DigitVal(c) == (CHOOSE d \in 1..10 : Digits[d] = c) - 1

----------------------------------------------------------------------------
(* JSON documents (nlohmann::json values) and the backing file *)

JNull == [type |-> "null", v |-> <<>>]
JNum(n) == [type |-> "number", v |-> n]
JStr(s) == [type |-> "string", v |-> s]
JBool(b) == [type |-> "boolean", v |-> b]
JArray(items) == [type |-> "array", v |-> items]
JObject(rec) == [type |-> "object", v |-> rec]

\* no file / a file whose text is not JSON / a file holding the text of a document
NoFile == [exists |-> FALSE, valid |-> FALSE, doc |-> JNull]
BadText == [exists |-> TRUE, valid |-> FALSE, doc |-> JNull]
Text(doc) == [exists |-> TRUE, valid |-> TRUE, doc |-> doc]

to_json(task) ==
    JObject([id |-> JNum(task.id),
             description |-> JStr(task.description),
             completed |-> JBool(task.completed),
             priority |-> JNum(task.priority)])

\* json::get<int>: numbers and booleans convert, anything else throws
GetInt(j) ==
    IF j.type = "number" THEN [ok |-> TRUE, val |-> j.v]
    ELSE IF j.type = "boolean" THEN [ok |-> TRUE, val |-> IF j.v THEN 1 ELSE 0]
    ELSE [ok |-> FALSE, val |-> 0]

NoTask == [id |-> 0, description |-> <<>>, completed |-> FALSE, priority |-> 0]

\* from_json that does not read the completed flag
from_json_pending(j) ==
    IF j.type # "object" THEN [ok |-> FALSE, task |-> NoTask]
    ELSE IF ~ ({"id", "description", "completed", "priority"} \subseteq DOMAIN j.v)
    THEN [ok |-> FALSE, task |-> NoTask]
    ELSE LET i == GetInt(j.v.id)
             p == GetInt(j.v.priority)
         IN  IF i.ok /\ p.ok /\ j.v.description.type = "string"
                     /\ j.v.completed.type = "boolean"
             THEN [ok |-> TRUE,
                   task |-> [id |-> i.val, description |-> j.v.description.v,
                             completed |-> FALSE, priority |-> p.val]]
             ELSE [ok |-> FALSE, task |-> NoTask]

\* ok = FALSE stands for the exception thrown by at() or by a conversion
from_json(j) ==
    IF j.type # "object" THEN [ok |-> FALSE, task |-> NoTask]
    ELSE IF ~ ({"id", "description", "completed", "priority"} \subseteq DOMAIN j.v)
    THEN [ok |-> FALSE, task |-> NoTask]
    ELSE LET i == GetInt(j.v.id)
             p == GetInt(j.v.priority)
         IN  IF i.ok /\ p.ok /\ j.v.description.type = "string"
                     /\ j.v.completed.type = "boolean"
             THEN [ok |-> TRUE,
                   task |-> [id |-> i.val, description |-> j.v.description.v,
                             completed |-> j.v.completed.v, priority |-> p.val]]
             ELSE [ok |-> FALSE, task |-> NoTask]

\* a dump that puts every task in front of the ones before it
Dump_reversed(ts) ==
    IF ts = <<>> THEN JNull
    ELSE JArray([i \in 1..Len(ts) |-> to_json(ts[Len(ts) + 1 - i])])

\* the json value save_tasks builds: null until the first push_back makes it an array
Dump(ts) ==
    IF ts = <<>> THEN JNull
    ELSE JArray([i \in 1..Len(ts) |-> to_json(ts[i])])

\* save_tasks whose failed attempt leaves the file truncated
save_tasks_truncate(ts) ==
    IF writable THEN [file |-> Text(Dump(ts)), msgs |-> <<>>]
    ELSE [file |-> BadText, msgs |-> <<[msg |-> "Error saving tasks to file."]>>]

\* the result of save_tasks for collection ts: the file afterwards and what cerr got
save_tasks(ts) ==
    IF writable THEN [file |-> Text(Dump(ts)), msgs |-> <<>>]
    ELSE [file |-> file, msgs |-> <<[msg |-> "Error saving tasks to file."]>>]

\* the elements a range-for visits in a json value
KeyOrder == <<"completed", "description", "id", "priority">>

RECURSIVE ObjectValues(_, _)
ObjectValues(rec, k) ==
    IF k > Len(KeyOrder) THEN <<>>
    ELSE (IF KeyOrder[k] \in DOMAIN rec THEN <<rec[KeyOrder[k]]>> ELSE <<>>)
         \o ObjectValues(rec, k + 1)

Items(j) ==
    IF j.type = "array" THEN j.v
    ELSE IF j.type = "null" THEN <<>>
    ELSE IF j.type = "object" THEN ObjectValues(j.v, 1)
    ELSE <<j>>

\* load_items with the comparison task.id > next_id in place of >=
RECURSIVE load_items_gt(_, _, _, _)
load_items_gt(items, i, ts, nid) ==
    IF i > Len(items) THEN [ok |-> TRUE, tasks |-> ts, next_id |-> nid]
    ELSE LET r == from_json(items[i])
         IN  IF ~ r.ok THEN [ok |-> FALSE, tasks |-> ts, next_id |-> nid]
             ELSE load_items_gt(items, i + 1, Append(ts, r.task),
                                IF r.task.id > nid THEN r.task.id + 1 ELSE nid)

\* the loop of load_tasks over the parsed document, from item i on; ok = FALSE
\* when from_json throws, with tasks and next_id as the loop left them
RECURSIVE load_items(_, _, _, _)
load_items(items, i, ts, nid) ==
    IF i > Len(items) THEN [ok |-> TRUE, tasks |-> ts, next_id |-> nid]
    ELSE LET r == from_json(items[i])
         IN  IF ~ r.ok THEN [ok |-> FALSE, tasks |-> ts, next_id |-> nid]
             ELSE load_items(items, i + 1, Append(ts, r.task),
                             IF r.task.id >= nid THEN r.task.id + 1 ELSE nid)

LoadError == [msg |-> "Error loading tasks from file. Starting with empty task list."]

\* load_tasks whose catch clause leaves tasks and next_id as the loop left them
load_tasks_noclear ==
    IF ~ file.exists
    THEN LET s == save_tasks(<<>>)
         IN  [tasks |-> <<>>, next_id |-> 1, file |-> s.file, msgs |-> s.msgs]
    ELSE IF ~ file.valid
    THEN [tasks |-> <<>>, next_id |-> 1, file |-> file, msgs |-> <<LoadError>>]
    ELSE LET r == load_items(Items(file.doc), 1, <<>>, 1)
         IN  [tasks |-> r.tasks, next_id |-> r.next_id, file |-> file,
              msgs |-> IF r.ok THEN <<>> ELSE <<LoadError>>]

\* the constructor: next_id(1), then load_tasks on the backing file; the catch
\* clause clears tasks and resets next_id
load_tasks ==
    IF ~ file.exists
    THEN LET s == save_tasks(<<>>)
         IN  [tasks |-> <<>>, next_id |-> 1, file |-> s.file, msgs |-> s.msgs]
    ELSE IF ~ file.valid
    THEN [tasks |-> <<>>, next_id |-> 1, file |-> file, msgs |-> <<LoadError>>]
    ELSE LET r == load_items(Items(file.doc), 1, <<>>, 1)
         IN  IF r.ok
             THEN [tasks |-> r.tasks, next_id |-> r.next_id, file |-> file, msgs |-> <<>>]
             ELSE [tasks |-> <<>>, next_id |-> 1, file |-> file, msgs |-> <<LoadError>>]

----------------------------------------------------------------------------
(* Tokenizer and argument parsing *)

IsSpace(c) == c = Space

RECURSIVE SkipSpace(_, _)
SkipSpace(s, i) ==
    IF i <= Len(s) /\ IsSpace(s[i]) THEN SkipSpace(s, i + 1) ELSE i

\* operator>> into a std::string stops at whitespace or at the end of the stream
RECURSIVE WordEnd(_, _)
WordEnd(s, i) ==
    IF i <= Len(s) /\ ~ IsSpace(s[i]) THEN WordEnd(s, i + 1) ELSE i

\* std::quoted after the opening quote: ok = FALSE when the stream ends before
\* the closing quote (the extraction fails)
RECURSIVE ReadQuoted(_, _, _)
ReadQuoted(s, i, acc) ==
    IF i > Len(s) THEN [ok |-> FALSE, str |-> acc, next |-> i]
    ELSE IF s[i] = Backslash
    THEN IF i + 1 > Len(s) THEN [ok |-> FALSE, str |-> acc, next |-> i + 1]
         ELSE ReadQuoted(s, i + 2, Append(acc, s[i + 1]))
    ELSE IF s[i] = Quote THEN [ok |-> TRUE, str |-> acc, next |-> i + 1]
    ELSE ReadQuoted(s, i + 1, Append(acc, s[i]))

\* while (iss >> std::quoted(token)) tokens.push_back(token)
RECURSIVE read_tokens(_, _, _)
read_tokens(s, i, tokens) ==
    LET j == SkipSpace(s, i)
    IN  IF j > Len(s) THEN tokens
        ELSE IF s[j] = Quote
        THEN LET q == ReadQuoted(s, j + 1, <<>>)
             IN  IF q.ok THEN read_tokens(s, q.next, Append(tokens, q.str))
                 ELSE tokens
        ELSE LET k == WordEnd(s, j)
             IN  read_tokens(s, k, Append(tokens, SubSeq(s, j, k - 1)))

split_command(command) == read_tokens(command, 1, <<>>)

\* the digits from position i on: next is the first position after them, over is
\* TRUE when the value exceeds IntMax
RECURSIVE ReadDigits(_, _, _, _)
ReadDigits(s, i, acc, over) ==
    IF i <= Len(s) /\ IsDigit(s[i])
    THEN LET d == DigitVal(s[i])
         IN  IF over \/ acc > (IntMax - d) \div 10
             THEN ReadDigits(s, i + 1, acc, TRUE)
             ELSE ReadDigits(s, i + 1, acc * 10 + d, FALSE)
    ELSE [next |-> i, val |-> acc, over |-> over]

\* std::stoi: leading whitespace, an optional sign, then digits; whatever follows
\* the digits is ignored. ok = FALSE stands for invalid_argument or out_of_range.
stoi(str) ==
    LET i == SkipSpace(str, 1)
        signed == i <= Len(str) /\ str[i] \in {"+", "-"}
        neg == signed /\ str[i] = "-"
        j == IF signed THEN i + 1 ELSE i
        d == ReadDigits(str, j, 0, FALSE)
    IN  IF d.next = j \/ d.over THEN [ok |-> FALSE, val |-> 0]
        ELSE [ok |-> TRUE, val |-> IF neg THEN 0 - d.val ELSE d.val]

parse_priority(priority_str) ==
    IF priority_str = W_high THEN 1
    ELSE IF priority_str = W_low THEN 3
    ELSE 2

\* the for loop of the add branch over tokens[i..], 1-based
RECURSIVE add_args(_, _, _, _)
add_args(tokens, i, description, priority) ==
    IF i > Len(tokens) THEN [description |-> description, priority |-> priority]
    ELSE IF tokens[i] = W_p /\ i + 1 <= Len(tokens)
    THEN add_args(tokens, i + 2, description, parse_priority(tokens[i + 1]))
    ELSE add_args(tokens, i + 1, description \o <<Space>> \o tokens[i], priority)

\* which arm of main's if/else-if chain a non-empty token sequence takes
Branch(tokens) ==
    LET command == tokens[1]
    IN  IF command = W_exit THEN "exit"
        ELSE IF command = W_help THEN "help"
        ELSE IF command = W_add /\ Len(tokens) >= 2 THEN "add"
        ELSE IF command = W_list THEN "list"
        ELSE IF command = W_done /\ Len(tokens) = 2 THEN "done"
        ELSE IF command = W_delete /\ Len(tokens) = 2 THEN "delete"
        ELSE "unknown"

----------------------------------------------------------------------------
(* TaskManager operations *)

\* the comparator without the priority test
TaskLess_idonly(a, b) == a.id < b.id

\* the comparator given to std::sort
TaskLess(a, b) ==
    IF a.priority # b.priority THEN a.priority < b.priority ELSE a.id < b.id

RECURSIVE Insert(_, _)
Insert(sorted, t) ==
    IF sorted = <<>> THEN <<t>>
    ELSE IF TaskLess(t, Head(sorted)) THEN <<t>> \o sorted
    ELSE <<Head(sorted)>> \o Insert(Tail(sorted), t)

\* the sorted copy list_tasks displays
RECURSIVE sorted_tasks(_)
sorted_tasks(ts) ==
    IF ts = <<>> THEN <<>>
    ELSE Insert(sorted_tasks(SubSeq(ts, 1, Len(ts) - 1)), ts[Len(ts)])

priority_str(p) ==
    IF p = 1 THEN "HIGH" ELSE IF p = 2 THEN "MEDIUM" ELSE IF p = 3 THEN "LOW" ELSE "UNKNOWN"

Row(task) ==
    [msg |-> "row", id |-> task.id,
     status |-> IF task.completed THEN "[DONE]" ELSE "[PENDING]",
     priority |-> priority_str(task.priority),
     description |-> task.description]

\* the lines the display loop prints for the sorted copy
RECURSIVE Rows(_, _)
Rows(ts, show_completed) ==
    IF ts = <<>> THEN <<>>
    ELSE (IF ~ show_completed /\ Head(ts).completed THEN <<>> ELSE <<Row(Head(ts))>>)
         \o Rows(Tail(ts), show_completed)

NoTasksFound == [msg |-> "No tasks found."]
Header == [msg |-> "TASK LIST"]
Added(id) == [msg |-> "Task added with ID: ", id |-> id]
MarkedDone == [msg |-> "Task marked as completed!"]
Deleted == [msg |-> "Task deleted successfully!!"]
NotFound(id) == [msg |-> "Task with ID not found.", id |-> id]
InvalidId == [msg |-> "Invalid task ID."]
UnknownCommand == [msg |-> "Unknown command. Type 'help' for available commands."]
HelpText == [msg |-> "COMMAND LINE TASK MANAGER"]
Goodbye == [msg |-> "Goodbye!"]

\* add_task taking the id from the size of the collection
add_task_size(description, priority) ==
    LET id == Len(tasks) + 1
        ts == Append(tasks, [id |-> id, description |-> description,
                             completed |-> FALSE, priority |-> priority])
        s == save_tasks(ts)
    IN  /\ tasks' = ts
        /\ next_id' = next_id + 1
        /\ file' = s.file
        /\ out' = s.msgs \o <<Added(id)>>
        /\ issued' = Append(issued, id)
        /\ everIssued' = everIssued \cup {id}

add_task(description, priority) ==
    LET ts == Append(tasks, [id |-> next_id, description |-> description,
                             completed |-> FALSE, priority |-> priority])
        s == save_tasks(ts)
    IN  /\ tasks' = ts
        /\ next_id' = next_id + 1
        /\ file' = s.file
        /\ out' = s.msgs \o <<Added((next_id + 1) - 1)>>
        /\ issued' = Append(issued, next_id)
        /\ everIssued' = everIssued \cup {next_id}

\* list_tasks that sorts the collection itself instead of a copy
list_tasks_inplace(show_completed) ==
    /\ out' = IF tasks = <<>> THEN <<NoTasksFound>>
              ELSE <<Header>> \o Rows(sorted_tasks(tasks), show_completed)
    /\ tasks' = sorted_tasks(tasks)
    /\ UNCHANGED <<next_id, file, issued, everIssued>>

list_tasks(show_completed) ==
    /\ out' = IF tasks = <<>> THEN <<NoTasksFound>>
              ELSE <<Header>> \o Rows(sorted_tasks(tasks), show_completed)
    /\ UNCHANGED <<tasks, next_id, file, issued, everIssued>>

\* std::find_if: the first position holding the id, 0 for tasks.end()
FindIf(ts, id) ==
    IF \E i \in 1..Len(ts) : ts[i].id = id
    THEN CHOOSE i \in 1..Len(ts) : ts[i].id = id /\ \A k \in 1..(i - 1) : ts[k].id # id
    ELSE 0

\* mark_done that flips the flag instead of setting it
mark_done_toggle(id) ==
    LET it == FindIf(tasks, id)
    IN  IF it # 0
        THEN LET ts == [tasks EXCEPT ![it].completed = ~ tasks[it].completed]
                 s == save_tasks(ts)
             IN  /\ tasks' = ts
                 /\ file' = s.file
                 /\ out' = s.msgs \o <<MarkedDone>>
                 /\ UNCHANGED <<next_id, issued, everIssued>>
        ELSE /\ out' = <<NotFound(id)>>
             /\ UNCHANGED <<tasks, next_id, file, issued, everIssued>>

mark_done(id) ==
    LET it == FindIf(tasks, id)
    IN  IF it # 0
        THEN LET ts == [tasks EXCEPT ![it].completed = TRUE]
                 s == save_tasks(ts)
             IN  /\ tasks' = ts
                 /\ file' = s.file
                 /\ out' = s.msgs \o <<MarkedDone>>
                 /\ UNCHANGED <<next_id, issued, everIssued>>
        ELSE /\ out' = <<NotFound(id)>>
             /\ UNCHANGED <<tasks, next_id, file, issued, everIssued>>

\* removal that moves the last element into the place of the removed one
RemoveIf_swap(ts, id) ==
    LET it == FindIf(ts, id)
    IN  IF it = 0 THEN ts
        ELSE SubSeq([ts EXCEPT ![it] = ts[Len(ts)]], 1, Len(ts) - 1)

\* std::remove_if: the elements kept, in their order
RemoveIf(ts, id) == SelectSeq(ts, LAMBDA t : t.id # id)

delete_task(id) ==
    LET kept == RemoveIf(tasks, id)
    IN  IF Len(kept) # Len(tasks)
        THEN LET s == save_tasks(kept)
             IN  /\ tasks' = kept
                 /\ file' = s.file
                 /\ out' = s.msgs \o <<Deleted>>
                 /\ UNCHANGED <<next_id, issued, everIssued>>
        ELSE /\ out' = <<NotFound(id)>>
             /\ UNCHANGED <<tasks, next_id, file, issued, everIssued>>

show_help ==
    /\ out' = <<HelpText>>
    /\ UNCHANGED <<tasks, next_id, file, issued, everIssued>>

----------------------------------------------------------------------------
(* Input: the lines standard input can deliver *)

RECURSIVE JoinWords(_)
JoinWords(words) ==
    IF Len(words) = 1 THEN words[1]
    ELSE words[1] \o <<Space>> \o JoinWords(Tail(words))

IdText(n) == <<Digits[n + 1]>>

Lines ==
    {<<>>, <<Space>>, W_exit, W_help, W_list, W_add,
     JoinWords(<<W_list, W_pending>>),
     JoinWords(<<W_add, <<"a">>>>),
     JoinWords(<<W_add, <<Quote, "c", Space, "d", Quote>>, W_p, W_high>>),
     JoinWords(<<W_done, <<"x">>>>)}
    \cup {JoinWords(<<W_done, IdText(n)>>) : n \in 1..MaxId}
    \cup {JoinWords(<<W_delete, IdText(n)>>) : n \in 1..MaxId}

\* the lines that may come last without a newline
LastLines ==
    {W_exit, W_list, JoinWords(<<W_add, <<"a">>>>), JoinWords(<<W_done, IdText(1)>>)}

\* what standard input holds next: a line ended by a newline, a last line that
\* the end of input cuts off without a newline, or nothing more
InputEvents ==
    {[kind |-> "line", text |-> l] : l \in Lines}
    \cup {[kind |-> "last", text |-> l] : l \in LastLines}
    \cup {[kind |-> "eof", text |-> <<>>]}

\* lines whose arguments are out of the ordinary: the flag before the description,
\* a flag and no description, an empty quoted description, an id with trailing
\* letters, a command with too few or too many arguments
ArgLines ==
    {<<>>, <<Space>>, W_list, W_done,
     JoinWords(<<W_add, W_p, W_high, <<"x">>>>),
     JoinWords(<<W_add, W_p, W_high>>),
     JoinWords(<<W_add, <<Quote, Quote>>>>),
     JoinWords(<<W_done, <<"1", "a", "b", "c">>>>),
     JoinWords(<<W_delete, <<"1", "a", "b", "c">>>>),
     JoinWords(<<W_done, <<Quote, Quote>>>>),
     JoinWords(<<W_delete, IdText(1), IdText(2)>>),
     JoinWords(<<W_help, <<"x">>>>),
     JoinWords(<<W_exit, <<"x">>>>)}

ArgEvents ==
    {[kind |-> "line", text |-> l] : l \in ArgLines}
    \cup {[kind |-> "eof", text |-> <<>>]}

\* the lines read where writing the file may fail: one line for every arm
IOLines ==
    {<<>>, <<Space>>, W_exit, W_help, W_list, W_done,
     JoinWords(<<W_add, <<"a">>>>),
     JoinWords(<<W_done, IdText(1)>>),
     JoinWords(<<W_delete, IdText(1)>>),
     JoinWords(<<W_delete, IdText(2)>>)}

IOEvents ==
    {[kind |-> "line", text |-> l] : l \in IOLines}
    \cup {[kind |-> "eof", text |-> <<>>]}

\* the tokens and the arm of every line, tabulated
TokensOf == [l \in Lines \cup ArgLines \cup IOLines |-> split_command(l)]

ArmOf == [l \in Lines \cup ArgLines \cup IOLines |->
             IF l = <<>> THEN "empty"
             ELSE IF TokensOf[l] = <<>> THEN "none"
             ELSE Branch(TokensOf[l])]

\* std::getline(std::cin, line): on a stream that is not good the sentry fails,
\* line keeps its content and failbit is set
getline(ev) ==
    IF cin # "good" THEN [line |-> line, cin |-> "fail"]
    ELSE IF ev.kind = "line" THEN [line |-> ev.text, cin |-> "good"]
    ELSE IF ev.kind = "last" THEN [line |-> ev.text, cin |-> "eof"]
    ELSE [line |-> <<>>, cin |-> "fail"]

----------------------------------------------------------------------------
(* main: construction, then one action per arm of the loop body *)

\* a run of the program starts (the run before it, if any, has ended or was
\* stopped): TaskManager manager("tasks.json"); show_help()
Launch ==
    LET r == load_tasks
    IN  /\ tasks' = r.tasks
        /\ next_id' = r.next_id
        /\ file' = r.file
        /\ out' = r.msgs \o <<HelpText>>
        /\ line' = <<>>
        /\ cin' = "good"
        /\ pc' = "loop"
        /\ issued' = <<>>
        /\ emptyStart' = (r.tasks = <<>>)
        /\ UNCHANGED <<writable, everIssued>>

\* the head of the loop body; on a stream that is not good there is nothing to
\* choose, so the one event "eof" stands for every call
Read(ev) ==
    /\ pc = "loop"
    /\ cin = "good" \/ ev.kind = "eof"
    /\ line' = getline(ev).line
    /\ cin' = getline(ev).cin
    /\ UNCHANGED <<writable, emptyStart>>

Tokens(ev) == TokensOf[getline(ev).line]

Takes(ev, arm) == ArmOf[getline(ev).line] = arm

\* if (line.empty()) continue
EmptyLine(ev) ==
    /\ Read(ev)
    /\ Takes(ev, "empty")
    /\ pc' = "loop"
    /\ out' = <<>>
    /\ UNCHANGED <<tasks, next_id, file, issued, everIssued>>

\* tokens[0] of an empty vector is undefined behaviour: the process crashes, or
\* command is an arbitrary string and the chain takes an arm that needs no argument
NoTokens(ev) ==
    /\ Read(ev)
    /\ Takes(ev, "none")
    /\ \E outcome \in {"crash", "exit", "help", "list", "unknown"} :
         /\ pc' = IF outcome = "crash" THEN "crashed"
                  ELSE IF outcome = "exit" THEN "done" ELSE "loop"
         /\ IF outcome = "help" THEN show_help
            ELSE IF outcome = "list" THEN list_tasks(TRUE)
            ELSE /\ out' = IF outcome = "exit" THEN <<Goodbye>>
                           ELSE IF outcome = "unknown" THEN <<UnknownCommand>>
                           ELSE <<>>
                 /\ UNCHANGED <<tasks, next_id, file, issued, everIssued>>

CmdExit(ev) ==
    /\ Read(ev)
    /\ Takes(ev, "exit")
    /\ pc' = "done"
    /\ out' = <<Goodbye>>
    /\ UNCHANGED <<tasks, next_id, file, issued, everIssued>>

CmdHelp(ev) ==
    /\ Read(ev)
    /\ Takes(ev, "help")
    /\ pc' = "loop"
    /\ show_help

CmdAdd(ev) ==
    /\ Read(ev)
    /\ Takes(ev, "add")
    /\ next_id <= MaxId
    /\ pc' = "loop"
    /\ LET tokens == Tokens(ev)
           a == add_args(tokens, 3, tokens[2], 2)
       IN  add_task(a.description, a.priority)

CmdList(ev) ==
    /\ Read(ev)
    /\ Takes(ev, "list")
    /\ pc' = "loop"
    /\ LET tokens == Tokens(ev)
       IN  list_tasks(~ (Len(tokens) > 1 /\ tokens[2] = W_pending))

CmdDone(ev) ==
    /\ Read(ev)
    /\ Takes(ev, "done")
    /\ pc' = "loop"
    /\ LET id == stoi(Tokens(ev)[2])
       IN  IF id.ok THEN mark_done(id.val)
           ELSE /\ out' = <<InvalidId>>
                /\ UNCHANGED <<tasks, next_id, file, issued, everIssued>>

CmdDelete(ev) ==
    /\ Read(ev)
    /\ Takes(ev, "delete")
    /\ pc' = "loop"
    /\ LET id == stoi(Tokens(ev)[2])
       IN  IF id.ok THEN delete_task(id.val)
           ELSE /\ out' = <<InvalidId>>
                /\ UNCHANGED <<tasks, next_id, file, issued, everIssued>>

CmdUnknown(ev) ==
    /\ Read(ev)
    /\ Takes(ev, "unknown")
    /\ pc' = "loop"
    /\ out' = <<UnknownCommand>>
    /\ UNCHANGED <<tasks, next_id, file, issued, everIssued>>

\* the state when main enters its loop on a machine without a backing file
Init ==
    /\ tasks = <<>>
    /\ next_id = 1
    /\ file = Text(JNull)
    /\ writable = TRUE
    /\ line = <<>>
    /\ cin = "good"
    /\ pc = "loop"
    /\ out = <<HelpText>>
    /\ issued = <<>>
    /\ everIssued = {}
    /\ emptyStart = TRUE

Next ==
    \/ Launch
    \/ \E ev \in InputEvents :
         \/ EmptyLine(ev)
         \/ NoTokens(ev)
         \/ CmdExit(ev)
         \/ CmdHelp(ev)
         \/ CmdAdd(ev)
         \/ CmdList(ev)
         \/ CmdDone(ev)
         \/ CmdDelete(ev)
         \/ CmdUnknown(ev)

Spec == Init /\ [][Next]_vars

\* the same program reading the lines of ArgLines
NextArgs ==
    \/ Launch
    \/ \E ev \in ArgEvents :
         \/ EmptyLine(ev)
         \/ NoTokens(ev)
         \/ CmdExit(ev)
         \/ CmdHelp(ev)
         \/ CmdAdd(ev)
         \/ CmdList(ev)
         \/ CmdDone(ev)
         \/ CmdDelete(ev)
         \/ CmdUnknown(ev)

SpecArgs == Init /\ [][NextArgs]_vars

\* outside the program the backing file stops being writable, or becomes writable
\* again: what std::ofstream file(filename) finds the next time it opens the file
Permit ==
    /\ writable' = ~ writable
    /\ UNCHANGED <<tasks, next_id, file, line, cin, pc, out, issued, everIssued,
                   emptyStart>>

\* the program on a machine where writing the file may fail
NextIO ==
    \/ Permit
    \/ Launch
    \/ \E ev \in IOEvents :
         \/ EmptyLine(ev)
         \/ NoTokens(ev)
         \/ CmdExit(ev)
         \/ CmdHelp(ev)
         \/ CmdAdd(ev)
         \/ CmdList(ev)
         \/ CmdDone(ev)
         \/ CmdDelete(ev)
         \/ CmdUnknown(ev)

SpecIO == Init /\ [][NextIO]_vars

----------------------------------------------------------------------------
(* Backing files the program may find when it starts *)

\* the largest id in a file found at start, and the most records it holds
MaxFileId == 3
MaxFileLen == 2

FileTask(id) ==
    to_json([id |-> id, description |-> <<"t">>, completed |-> (id % 2 = 0),
             priority |-> IF id % 2 = 0 THEN 3 ELSE 2])

\* records that from_json rejects: a key missing, a string as id
BadItems ==
    {JObject([id |-> JNum(1)]),
     JObject([id |-> JStr(<<"1">>), description |-> JStr(<<"t">>),
              completed |-> JBool(FALSE), priority |-> JNum(2)])}

FileItems == {FileTask(id) : id \in 1..MaxFileId} \cup BadItems

\* arrays of records in any order, no id twice
FileArrays ==
    {s \in UNION {[1..n -> FileItems] : n \in 0..MaxFileLen} :
        \A i, k \in 1..Len(s) :
            (i # k /\ from_json(s[i]).ok /\ from_json(s[k]).ok)
                => from_json(s[i]).task.id # from_json(s[k]).task.id}

Files ==
    {NoFile, BadText, Text(JNull), Text(JNum(5)), Text(FileTask(1))}
    \cup {Text(JArray(s)) : s \in FileArrays}

\* before main runs, with any of the files in place
InitLoad ==
    /\ tasks = <<>>
    /\ next_id = 1
    /\ file \in Files
    /\ writable = TRUE
    /\ line = <<>>
    /\ cin = "good"
    /\ pc = "off"
    /\ out = <<>>
    /\ issued = <<>>
    /\ everIssued = {}
    /\ emptyStart = TRUE

\* the lines read after a file was found: one for every arm, among the lines of
\* Lines
LoadLines ==
    {<<>>, <<Space>>, W_exit, W_help, W_list, W_add,
     JoinWords(<<W_list, W_pending>>),
     JoinWords(<<W_add, <<Quote, "c", Space, "d", Quote>>, W_p, W_high>>),
     JoinWords(<<W_add, <<"a">>>>),
     JoinWords(<<W_done, <<"x">>>>),
     JoinWords(<<W_done, IdText(1)>>),
     JoinWords(<<W_done, IdText(2)>>),
     JoinWords(<<W_delete, IdText(1)>>),
     JoinWords(<<W_delete, IdText(2)>>)}

LoadEvents ==
    {[kind |-> "line", text |-> l] : l \in LoadLines}
    \cup {[kind |-> "eof", text |-> <<>>]}

NextLoad ==
    \/ Launch
    \/ \E ev \in LoadEvents :
         \/ EmptyLine(ev)
         \/ NoTokens(ev)
         \/ CmdExit(ev)
         \/ CmdHelp(ev)
         \/ CmdAdd(ev)
         \/ CmdList(ev)
         \/ CmdDone(ev)
         \/ CmdDelete(ev)
         \/ CmdUnknown(ev)

SpecLoad == InitLoad /\ [][NextLoad]_vars

----------------------------------------------------------------------------
(* Properties *)

IdsOf(ts) == {ts[i].id : i \in 1..Len(ts)}

MaxOf(S) == CHOOSE m \in S : \A x \in S : x <= m

\* main has constructed the manager and printed the banner, and has read nothing yet
PostLaunch ==
    /\ pc = "loop"
    /\ cin = "good"
    /\ line = <<>>
    /\ out # <<>>
    /\ out[Len(out)].msg = HelpText.msg

RowsOf(o) == SelectSeq(o, LAMBDA m : m.msg = "row")

PriorityRank(str) == IF str = "HIGH" THEN 1 ELSE IF str = "MEDIUM" THEN 2 ELSE 3

L_list_pending == JoinWords(<<W_list, W_pending>>)

ListStep == \E ev \in InputEvents : CmdList(ev)

\* C1: in a session that starts with an empty store the k-th add gets id k (so the
\* first gets 1, whatever the priority), within any session every add gets an id
\* greater than all earlier adds of the session, and no two tasks of the
\* collection ever share an id.
C1_IdsIncreasing ==
    /\ \A i, k \in 1..Len(tasks) : i # k => tasks[i].id # tasks[k].id
    /\ \A i, k \in 1..Len(issued) : i < k => issued[i] < issued[k]
    /\ emptyStart => \A i \in 1..Len(issued) : issued[i] = i

\* three adds from an empty store, a delete among them, two priorities in the store
C1_Witness ==
    /\ emptyStart
    /\ Len(issued) >= 3
    /\ Len(tasks) = 2
    /\ tasks[1].priority # tasks[2].priority

\* C2: over the lifetime of the backing file, restarts included, every id that add
\* assigns is greater than every id any earlier add assigned.
C2_NeverReassigned ==
    [][Len(issued') > Len(issued)
         => \A old \in everIssued : issued'[Len(issued')] > old]_vars

Parseable(f) ==
    /\ f.exists
    /\ f.valid
    /\ \A i \in 1..Len(Items(f.doc)) : from_json(Items(f.doc)[i]).ok

FileIds(f) == {Items(f.doc)[i].v.id.v : i \in 1..Len(Items(f.doc))}

C4_ListSortedAndPure ==
    [][ListStep
         => LET rows == RowsOf(out')
                all == line' # L_list_pending
                match(t) == all \/ ~ t.completed
            IN  /\ \A i, k \in 1..Len(rows) :
                       i < k =>
                         \/ PriorityRank(rows[i].priority) < PriorityRank(rows[k].priority)
                         \/ /\ rows[i].priority = rows[k].priority
                            /\ rows[i].id < rows[k].id
                /\ \A i \in 1..Len(tasks) :
                       Cardinality({k \in 1..Len(rows) : rows[k] = Row(tasks[i])})
                           = IF match(tasks[i]) THEN 1 ELSE 0
                /\ Len(rows) = Cardinality({i \in 1..Len(tasks) : match(tasks[i])})
                /\ UNCHANGED <<tasks, next_id, file>>]_vars

\* list pending has hidden a completed task and shown two others in an order that
\* is not the order of the collection
C4_Witness ==
    /\ line = L_list_pending
    /\ out # <<>>
    /\ out[1].msg = Header.msg
    /\ Len(RowsOf(out)) = 2
    /\ Len(tasks) = 3
    /\ RowsOf(out)[1].id > RowsOf(out)[2].id

\* C5: list prints "No tasks found." exactly when no task matches the filter.
C5_NoTasksWhenNothingMatches ==
    [][ListStep
         => LET all == line' # L_list_pending
            IN  (out'[1].msg = NoTasksFound.msg)
                    <=> (\A i \in 1..Len(tasks) : ~ all /\ tasks[i].completed)]_vars

L_done(id) == JoinWords(<<W_done, IdText(id)>>)

L_delete(id) == JoinWords(<<W_delete, IdText(id)>>)

DoneStep(id) == line' = L_done(id) /\ \E ev \in InputEvents : CmdDone(ev)

DeleteStep(id) == line' = L_delete(id) /\ \E ev \in InputEvents : CmdDelete(ev)

\* the step printed exactly the message m
Says(o, m) == Len(o) = 1 /\ o[1].msg = m.msg

SaysNotFound(o, id) == Says(o, NotFound(id)) /\ o[1].id = id

Completed(t) ==
    [id |-> t.id, description |-> t.description, completed |-> TRUE,
     priority |-> t.priority]

\* C6: done <id> on a present id sets completed on that task and on nothing else,
\* keeps next_id, rewrites the file with the collection and reports success, also
\* when the task was completed already (the collection is then unchanged); on an
\* absent id it reports not-found and changes neither collection, next_id nor file.
C6_CompleteIdempotent ==
    [][\A id \in 1..MaxId :
         DoneStep(id)
           => IF id \in IdsOf(tasks)
              THEN /\ Len(tasks') = Len(tasks)
                   /\ \A i \in 1..Len(tasks) :
                          tasks'[i] = IF tasks[i].id = id THEN Completed(tasks[i])
                                      ELSE tasks[i]
                   /\ (\A i \in 1..Len(tasks) : tasks[i].id = id => tasks[i].completed)
                          => tasks' = tasks
                   /\ next_id' = next_id
                   /\ file' = Text(Dump(tasks'))
                   /\ Says(out', MarkedDone)
              ELSE /\ SaysNotFound(out', id)
                   /\ UNCHANGED <<tasks, next_id, file>>]_vars

\* done 1 came last without a newline and has run a second time on the completed
\* task, next to a task that is still pending
C6_Witness ==
    /\ cin = "fail"
    /\ line = L_done(1)
    /\ Says(out, MarkedDone)
    /\ Len(tasks) >= 2
    /\ \E i \in 1..Len(tasks) : ~ tasks[i].completed

\* C7: delete <id> on a present id removes that one task, keeps the others as they
\* are and in their order, keeps next_id and rewrites the file; the same delete
\* right after it reports not-found; on an absent id nothing changes.
C7_DeleteExactlyOne ==
    [][\A id \in 1..MaxId :
         DeleteStep(id)
           => /\ IF id \in IdsOf(tasks)
                 THEN LET pos == CHOOSE i \in 1..Len(tasks) : tasks[i].id = id
                      IN  /\ Len(tasks') = Len(tasks) - 1
                          /\ \A i \in 1..Len(tasks') :
                                 tasks'[i] = tasks[IF i < pos THEN i ELSE i + 1]
                          /\ id \notin IdsOf(tasks')
                          /\ next_id' = next_id
                          /\ file' = Text(Dump(tasks'))
                          /\ Says(out', Deleted)
                 ELSE /\ SaysNotFound(out', id)
                      /\ UNCHANGED <<tasks, next_id, file>>
              /\ (line = L_delete(id) /\ Says(out, Deleted)) => SaysNotFound(out', id)]_vars

\* delete 2 has removed the middle one of three tasks
C7_Witness ==
    /\ line = L_delete(2)
    /\ Says(out, Deleted)
    /\ Len(tasks) = 2
    /\ tasks[1].id = 1
    /\ tasks[2].id = 3

\* C8: a program started on the file a non-empty collection was saved to holds the
\* same tasks, field by field, and a next_id above every loaded id.
C8_RoundTrip ==
    [][(Launch /\ tasks # <<>> /\ file = Text(Dump(tasks)))
         => /\ Len(tasks') = Len(tasks)
            /\ {tasks'[i] : i \in 1..Len(tasks')} = {tasks[i] : i \in 1..Len(tasks)}
            /\ next_id' > MaxOf(IdsOf(tasks'))]_vars

\* a restart has loaded two tasks, one of them completed, the first id deleted
C8_Witness ==
    /\ PostLaunch
    /\ everIssued # {}
    /\ issued = <<>>
    /\ Len(tasks) = 2
    /\ tasks[1].id = 2
    /\ \E i \in 1..Len(tasks) : tasks[i].completed
    /\ file = Text(Dump(tasks))

Unparseable(f) == f.exists /\ ~ Parseable(f)

\* C9: the load of a file that is not JSON, or holds a record that does not decode,
\* leaves an empty collection and next_id = 1, reports the failure, enters the loop
\* and does not touch the file; an existing file changes only in a step in which
\* add, done or delete succeeds.
C9_BadFileGivesEmptyStore ==
    [][/\ (Launch /\ Unparseable(file))
            => /\ tasks' = <<>>
               /\ next_id' = 1
               /\ file' = file
               /\ pc' = "loop"
               /\ \E i \in 1..Len(out') : out'[i].msg = LoadError.msg
       /\ (file.exists /\ file' # file)
            => /\ \E ev \in InputEvents : CmdAdd(ev) \/ CmdDone(ev) \/ CmdDelete(ev)
               /\ out'[Len(out')].msg \in {Added(0).msg, MarkedDone.msg, Deleted.msg}]_vars

\* a file whose second record does not decode has just been loaded
C9_Witness ==
    /\ PostLaunch
    /\ file = Text(JArray(<<FileTask(1), JObject([id |-> JNum(1)])>>))
    /\ tasks = <<>>
    /\ next_id = 1
    /\ out[1].msg = LoadError.msg

\* C10: the loop ends when getline meets the end of input, without running a
\* command in that iteration, and a line that holds a command ends it only when
\* the command is exit.
C10_StopsAtEndOfInput ==
    [][/\ (pc = "loop" /\ cin' = "fail")
            => (pc' = "done" /\ UNCHANGED <<tasks, next_id, file>>)
       /\ (pc = "loop" /\ pc' # "loop" /\ cin' # "fail" /\ TokensOf[line'] # <<>>)
            => (pc' = "done" /\ TokensOf[line'][1] = W_exit)]_vars


----------------------------------------------------------------------------
(* The command lines as the specification reads them *)

AllLines == Lines \cup ArgLines \cup IOLines

\* the step is a turn of the loop that read the line l (the program itself never
\* changes whether the file is writable)
Processed(l) == pc = "loop" /\ l # <<>> /\ line' = l /\ writable' = writable

StoreUnchanged == UNCHANGED <<tasks, next_id, file>>

\* the arguments from position i on that are neither the flag nor its value
RECURSIVE PlainArgs(_, _)
PlainArgs(tokens, i) ==
    IF i > Len(tokens) THEN <<>>
    ELSE IF tokens[i] = W_p THEN PlainArgs(tokens, i + 2)
    ELSE <<tokens[i]>> \o PlainArgs(tokens, i + 1)

\* the priority the flag names, wherever it stands; without a flag, priority
RECURSIVE FlagPriority(_, _, _)
FlagPriority(tokens, i, priority) ==
    IF i > Len(tokens) THEN priority
    ELSE IF tokens[i] = W_p /\ i + 1 <= Len(tokens)
         THEN FlagPriority(tokens, i + 2, parse_priority(tokens[i + 1]))
    ELSE FlagPriority(tokens, i + 1, priority)

IsAdd(l) == TokensOf[l] # <<>> /\ TokensOf[l][1] = W_add

\* C11: an add whose arguments hold a description creates a task whose description
\* is the arguments that are neither the -p flag nor its value, joined by single
\* spaces, and whose priority is the one the flag names (MEDIUM without a flag or
\* with an unknown value), wherever the flag stands, directly after the command
\* name included.
C11_AddReadsFlagAnywhere ==
    [][\A l \in AllLines :
          (Processed(l) /\ IsAdd(l) /\ PlainArgs(TokensOf[l], 2) # <<>>)
              => /\ Len(tasks') = Len(tasks) + 1
                 /\ tasks'[Len(tasks')].description
                        = JoinWords(PlainArgs(TokensOf[l], 2))
                 /\ tasks'[Len(tasks')].priority
                        = FlagPriority(TokensOf[l], 2, 2)]_vars

\* C12: an add that has no description token (no argument at all, or nothing but
\* the flag and its value) is rejected as an unknown command: no task is created,
\* nothing is stored, and the loop goes on.
C12_AddWithoutDescriptionRejected ==
    [][\A l \in AllLines :
          (Processed(l) /\ IsAdd(l) /\ PlainArgs(TokensOf[l], 2) = <<>>)
              => /\ StoreUnchanged
                 /\ pc' = "loop"
                 /\ Says(out', UnknownCommand)]_vars

\* the whole token is an integer literal: an optional sign, then digits only
IsInteger(token) ==
    LET first == IF token # <<>> /\ token[1] \in {"+", "-"} THEN 2 ELSE 1
    IN  /\ first <= Len(token)
        /\ \A i \in first..Len(token) : IsDigit(token[i])

IsDoneOrDelete(l) == TokensOf[l] # <<>> /\ TokensOf[l][1] \in {W_done, W_delete}

\* C13: a done or a delete whose one argument is not an integer (letters, an empty
\* token, digits followed by other characters) is reported as an invalid id and
\* does nothing to the store.
C13_NonIntegerIdIsInvalid ==
    [][\A l \in AllLines :
          (/\ Processed(l)
           /\ IsDoneOrDelete(l)
           /\ Len(TokensOf[l]) = 2
           /\ ~ IsInteger(TokensOf[l][2]))
              => /\ StoreUnchanged
                 /\ pc' = "loop"
                 /\ Says(out', InvalidId)]_vars

\* C14: a line that yields no token (the empty line, a line of whitespace only) is
\* ignored: the loop goes on to the next line, prints nothing and leaves the
\* store alone, which it can only do without reading a token.
C14_BlankLineIgnored ==
    [][\A l \in AllLines :
          (TokensOf[l] = <<>> /\ pc = "loop" /\ line' = l /\ ~ Launch)
              => /\ StoreUnchanged
                 /\ pc' = "loop"
                 /\ out' = <<>>]_vars

CommandNames == {W_exit, W_help, W_add, W_list, W_done, W_delete}

\* the first token is no command name, or the command has the wrong number of
\* arguments
Unrecognized(tokens) ==
    /\ tokens # <<>>
    /\ \/ tokens[1] \notin CommandNames
       \/ tokens[1] \in {W_done, W_delete} /\ Len(tokens) # 2
       \/ tokens[1] \in {W_help, W_exit} /\ Len(tokens) > 1

\* C15: a line whose first token is not a command name, or that gives done or
\* delete no or several arguments, or gives help or exit any argument, is answered
\* with the unknown-command message; nothing is done to the store, no help text is
\* printed and the program does not terminate.
C15_WrongArityIsUnknown ==
    [][\A l \in AllLines :
          (Processed(l) /\ Unrecognized(TokensOf[l]))
              => /\ StoreUnchanged
                 /\ pc' = "loop"
                 /\ Says(out', UnknownCommand)]_vars

SaveError == [msg |-> "Error saving tasks to file."]

\* the file holds the records of ts, one for one and in the order of ts
FileHolds(f, ts) ==
    /\ f.exists
    /\ f.valid
    /\ Len(Items(f.doc)) = Len(ts)
    /\ \A i \in 1..Len(ts) : Items(f.doc)[i] = to_json(ts[i])

\* the id a done or delete line names
IdOf(l) == stoi(TokensOf[l][2]).val

\* the line is a command that changes the collection: an add, or a done or delete
\* of an id the collection holds
Mutates(l) ==
    \/ ArmOf[l] = "add"
    \/ /\ ArmOf[l] \in {"done", "delete"}
       /\ stoi(TokensOf[l][2]).ok
       /\ IdOf(l) \in IdsOf(tasks)

\* the step has made the change of line l in memory
Applied(l) ==
    IF ArmOf[l] = "add"
    THEN /\ Len(tasks') = Len(tasks) + 1
         /\ SubSeq(tasks', 1, Len(tasks)) = tasks
    ELSE IF ArmOf[l] = "done"
    THEN /\ Len(tasks') = Len(tasks)
         /\ \A i \in 1..Len(tasks) :
               tasks'[i] = IF tasks[i].id = IdOf(l) THEN Completed(tasks[i])
                           ELSE tasks[i]
    ELSE /\ Len(tasks') = Len(tasks) - 1
         /\ IdOf(l) \notin IdsOf(tasks')

\* C16: when the file cannot be opened for writing during an add, done or delete,
\* the change is made in memory all the same, the failure is reported, the loop
\* goes on and the file keeps its content; and the next add, done or delete whose
\* write succeeds leaves the file holding the whole collection, the changes made
\* in between included.
C16_FailedWriteKeepsMutation ==
    [][\A l \in AllLines :
          (Processed(l) /\ Mutates(l))
              => /\ Applied(l)
                 /\ pc' = "loop"
                 /\ IF writable
                    THEN FileHolds(file', tasks')
                    ELSE /\ file' = file
                         /\ Len(out') = 2
                         /\ out'[1].msg = SaveError.msg]_vars

C16_Witness ==
    /\ ~ writable
    /\ pc = "loop"
    /\ Len(out) = 2
    /\ out[1].msg = SaveError.msg
    /\ out[2].msg = MarkedDone.msg
    /\ Len(tasks) = 2
    /\ tasks[1].completed
    /\ FileHolds(file, <<>>)

\* C17: while the file is writable and the load at start did not fail, after every
\* command the file holds the records of the collection, one for one and in the
\* order of insertion (not the order list displays); the file changes only in a
\* turn that adds a task or completes or deletes a task the collection holds.
C17_FileMirrorsCollection ==
    /\ [](pc # "off" => FileHolds(file, tasks))
    /\ [][file' # file => \E l \in AllLines : Processed(l) /\ Mutates(l)]_vars

C17_Witness ==
    /\ Len(tasks) = 2
    /\ tasks[1].priority > tasks[2].priority
    /\ tasks[1].completed
    /\ file.doc.type = "array"
    /\ FileHolds(file, tasks)
    /\ Says(out, MarkedDone)

\* C18: from one state to the next a task that stays in the collection keeps its id,
\* description and priority and its place relative to the other tasks that stay;
\* its completed flag never goes back to false, and goes to true only in a turn
\* that runs done on the task's own id.
C18_TaskLifecycle ==
    [][tasks' # tasks => \A i \in 1..Len(tasks) :
          LET k == FindIf(tasks', tasks[i].id)
          IN  k # 0 =>
                /\ tasks'[k].description = tasks[i].description
                /\ tasks'[k].priority = tasks[i].priority
                /\ tasks[i].completed => tasks'[k].completed
                /\ tasks'[k].completed # tasks[i].completed
                     => \E l \in AllLines :
                           /\ Processed(l)
                           /\ ArmOf[l] = "done"
                           /\ stoi(TokensOf[l][2]).ok
                           /\ IdOf(l) = tasks[i].id
                /\ \A j \in 1..Len(tasks) :
                      (j < i /\ FindIf(tasks', tasks[j].id) # 0)
                          => FindIf(tasks', tasks[j].id) < k]_vars

C18_Witness ==
    /\ Len(tasks) = 3
    /\ ~ tasks[1].completed
    /\ tasks[2].completed
    /\ tasks[2].priority = 1
    /\ tasks[3].priority = 2
    /\ line = L_done(tasks[2].id)
    /\ Says(out, MarkedDone)

\* C19: whatever the program writes to the file is a JSON array of task objects;
\* written from an empty collection (no file at start, the last task deleted) it
\* is the empty array, and a file without records loads as an empty collection
\* with next_id = 1.
C19_FileIsArray ==
    [][/\ (file' # file /\ writable' = writable)
            => /\ file'.exists
               /\ file'.valid
               /\ file'.doc.type = "array"
               /\ \A i \in 1..Len(file'.doc.v) : from_json(file'.doc.v[i]).ok
       /\ (Launch /\ file.exists /\ file.valid /\ Items(file.doc) = <<>>)
            => tasks' = <<>> /\ next_id' = 1]_vars

\* C20: in every state reached from the empty store no task of the collection and
\* no record of the file has the empty string as its description.
C20_DescriptionNeverEmpty ==
    /\ \A i \in 1..Len(tasks) : tasks[i].description # <<>>
    /\ (file.exists /\ file.valid)
          => \A i \in 1..Len(Items(file.doc)) :
                Items(file.doc)[i].v.description.v # <<>>

============================================================================
